---------------------------- MODULE Spec2Model ----------------------------
(***************************************************************************)
(* One invocation of the Hue bridge client (scripts/hue-control/main.go)   *)
(* or of the weather advisor (scripts/weather-lights), followed step by    *)
(* step: flag parsing and validation, configuration loading, the bridge    *)
(* requests in the order they are issued, and the exit status.             *)
(*                                                                         *)
(* Everything outside the process is input: the command line, the process  *)
(* environment, the .env and legacy files, what the bridge answers and     *)
(* whether a request reaches it.  Inputs are drawn from small sets.        *)
(***************************************************************************)
EXTENDS Integers, Sequences, FiniteSets, TLC

VARIABLES
    prog,        \* which executable runs: "hue-control" or "weather-lights"
    argc,        \* len(os.Args) of hue-control: 1 without a command, else 2
    cmd,         \* os.Args[1] of hue-control, "" when there is none
    args,        \* the command line flags as given
    stdin,       \* the line typed at the setup prompt
    environ,     \* the process environment, HUE_BRIDGE_IP and HUE_API_KEY
    environ0,    \* the environment the process was started with
    envFile,     \* the .env file of the working directory
    envFile0,    \* its content when the process started
    legacy,      \* ~/.hue-config.json
    pc,          \* where the process is
    exitCode,    \* the exit status once pc = "exit" (2: a Go panic)
    err,         \* the error kind reported, "" when none
    config,      \* what loadConfig returned
    final,       \* runSet's finalHue, finalSat and hueBrightness
    call,        \* the arguments of setAllLights / setRoomState
    groups,      \* what getGroups returned: group id -> name
    pending,     \* setAllLights' fallback loop: the ids not yet visited
    reqs,        \* every request sent to the bridge, in order
    reply,       \* what the bridge answered to the pairing POST
    apiKey,      \* createUser's result
    weather,     \* what the weather service answered
    baseColor,   \* weather-lights: colour of the weather code
    temp,        \* weather-lights: the parsed temperature
    color,       \* weather-lights: the colour after the temperature rule
    invoked      \* weather-lights: the hue-control command lines it ran

vars == <<prog, argc, cmd, args, stdin, environ, environ0, envFile, envFile0, legacy, pc,
          exitCode, err, config, final, call, groups, pending, reqs, reply,
          apiKey, weather, baseColor, temp, color, invoked>>

-----------------------------------------------------------------------------
(* Bounds of the model.                                                    *)

\* how many groups a bridge listing holds at most
MaxGroups == 2
\* brightness percentages tried: -1 .. MaxPercent
MaxPercent == 101
\* temperatures tried: -MaxTemp .. MaxTemp
MaxTemp == 45

-----------------------------------------------------------------------------
(* Strings.  TLC cannot look inside a string, so the two library string    *)
(* functions the program uses are tabulated over the strings of the model. *)

\* strings.ToLower
ToLower(s) ==
    CASE s = "ALL"     -> "all"
      [] s = "All"     -> "all"
      [] s = "Kitchen" -> "kitchen"
      [] s = "KITCHEN" -> "kitchen"
      [] s = "Den"     -> "den"
      [] s = "Attic"   -> "attic"
      [] s = "Blue"    -> "blue"
      [] s = "WARM"    -> "warm"
      [] OTHER         -> s

\* a wrong comparison: case-sensitive
EqualFold_Exact(a, b) == a = b

\* strings.EqualFold: equality under simple case folding, which for the
\* ASCII names of the model is equality of the lower-case forms
EqualFold(a, b) == ToLower(a) = ToLower(b)

\* strings.TrimSpace applied to the line read from the prompt
TrimSpace(s) ==
    CASE s = "\n"             -> ""
      [] s = "  \n"           -> ""
      [] s = "10.0.0.9\n"     -> "10.0.0.9"
      [] s = " 10.0.0.9 \n"   -> "10.0.0.9"
      [] OTHER                -> s

-----------------------------------------------------------------------------
(* The colour presets.                                                     *)

PresetNames == {"red", "orange", "yellow", "green", "cyan", "blue",
                "purple", "pink", "warm", "cool", "white"}

\* ColorPresets: name -> <<hue, saturation>>
ColorPresets ==
    [c \in PresetNames |->
        CASE c = "red"    -> <<0, 254>>
          [] c = "orange" -> <<5000, 254>>
          [] c = "yellow" -> <<10000, 254>>
          [] c = "green"  -> <<25500, 254>>
          [] c = "cyan"   -> <<35000, 254>>
          [] c = "blue"   -> <<46920, 254>>
          [] c = "purple" -> <<50000, 254>>
          [] c = "pink"   -> <<56100, 254>>
          [] c = "warm"   -> <<8000, 200>>
          [] c = "cool"   -> <<34000, 50>>
          [] c = "white"  -> <<0, 0>>]


-----------------------------------------------------------------------------
(* runSet: the flags and what is computed from them.                       *)

\* flag.Int with a default: the value given on the command line, or the
\* default when the flag is absent
FlagInt(f, default) == IF f.given THEN f.val ELSE default

\* *hueVal and *satVal: absent flags read as -1
HueVal(a) == FlagInt(a.hue, -1)
SatVal(a) == FlagInt(a.sat, -1)

\* the checks of runSet, in the order the code makes them; TRUE when the
\* process goes on to loadConfig, FALSE when it prints an error and exits 1
RunSetValid(a) ==
    /\ ~(a.brightness < 0 \/ a.brightness > 100)
    /\ (a.color # "" => ToLower(a.color) \in DOMAIN ColorPresets)
    /\ (HueVal(a) >= 0 => ~(HueVal(a) > 65535))
    /\ (SatVal(a) >= 0 => ~(SatVal(a) > 254))

\* a wrong resolution: the preset wins over the explicit flag
FinalHue_PresetWins(a) ==
    IF a.color # "" THEN ColorPresets[ToLower(a.color)][1]
    ELSE IF HueVal(a) >= 0 THEN HueVal(a) ELSE -1

\* finalHue: -1, then the preset's hue, then the explicit flag
FinalHue(a) ==
    IF HueVal(a) >= 0 THEN HueVal(a)
    ELSE IF a.color # "" THEN ColorPresets[ToLower(a.color)][1]
    ELSE -1

\* finalSat: -1, then the preset's saturation, then the explicit flag
FinalSat(a) ==
    IF SatVal(a) >= 0 THEN SatVal(a)
    ELSE IF a.color # "" THEN ColorPresets[ToLower(a.color)][2]
    ELSE -1

\* a wrong conversion: round to nearest instead of truncating
HueBrightness_Round(p) ==
    LET b == (p * 254 + 50) \div 100
    IN  IF b < 1 /\ p > 0 THEN 1 ELSE b

\* hueBrightness: int(float64(p) / 100.0 * 254), then the floor of 1 for a
\* positive percentage.  The conversion to int truncates.  For p in 0..100
\* the exact quotient p*254/100 is an integer only for p = 0, 50, 100, where
\* the floating-point product is exact, and is otherwise at least 0.02 away
\* from an integer, so the truncated float is the integer quotient.
HueBrightness(p) ==
    LET b == (p * 254) \div 100
    IN  IF b < 1 /\ p > 0 THEN 1 ELSE b

-----------------------------------------------------------------------------
(* The JSON bodies of the state-change requests.  A body is a function     *)
(* from the field names present to their values.                           *)

Field(k, on, bri, hue, sat) ==
    CASE k = "on"  -> on
      [] k = "bri" -> bri
      [] k = "hue" -> hue
      [] k = "sat" -> sat

\* setAllLights' state map
AllState(on, bri, hue, sat) ==
    LET keys == {"on"}
                \cup (IF on /\ bri > 0 THEN {"bri"} ELSE {})
                \cup (IF hue >= 0 THEN {"hue"} ELSE {})
                \cup (IF sat >= 0 THEN {"sat"} ELSE {})
    IN  [k \in keys |-> Field(k, on, bri, hue, sat)]

\* setRoomState's state map
RoomState(bri, hue, sat) ==
    LET keys == {"on", "bri"}
                \cup (IF hue >= 0 THEN {"hue"} ELSE {})
                \cup (IF sat >= 0 THEN {"sat"} ELSE {})
    IN  [k \in keys |-> Field(k, TRUE, bri, hue, sat)]

\* what becomes of a request: no response at all (client.Do returns an
\* error), or a response whose body reports success, or a response whose
\* body reports an error of the bridge
Responses == {"none", "success", "error"}

\* one request as it is sent, with what became of it: ok says whether
\* client.Do returned no error
Request(method, target, body, response) ==
    [method |-> method, target |-> target, body |-> body,
     ok |-> response # "none", response |-> response]

NoBody == [k \in {} |-> 0]

\* createUser: the body of the pairing POST
PairingBody == [devicetype |-> "hue-control#cli"]

-----------------------------------------------------------------------------
(* loadConfig.                                                             *)

EnvNames == {"HUE_BRIDGE_IP", "HUE_API_KEY"}

Unset == [set |-> FALSE, val |-> ""]
SetTo(v) == [set |-> TRUE, val |-> v]

\* os.Getenv: an unset variable reads as ""
Getenv(env, k) == IF env[k].set THEN env[k].val ELSE ""

\* the lines of a .env file are KEY=value pairs
Line(k, v) == [key |-> k, val |-> v]
HasKey(lines, k) == \E i \in DOMAIN lines : lines[i].key = k

\* the value godotenv's parser keeps for a key: that of its last line
FileValue(lines, k) ==
    LET idx == {i \in DOMAIN lines : lines[i].key = k}
    IN  lines[CHOOSE i \in idx : \A j \in idx : j <= i].val

\* godotenv.Load(): reads ./.env (an unreadable file is an error, which
\* loadConfig ignores) and sets each of its keys that the process
\* environment does not already hold; a variable that is set, even to the
\* empty string, is never overridden
GodotenvLoad(env, file) ==
    [k \in EnvNames |->
        IF file.exists /\ HasKey(file.lines, k) /\ ~env[k].set
        THEN SetTo(FileValue(file.lines, k))
        ELSE env[k]]

\* the legacy file's fields as json.Unmarshal leaves them; "" for a field
\* the file lacks, and for every field when the home directory is unknown,
\* the file is missing or the file is not JSON
LegacyField(leg, f) == IF leg.state = "ok" THEN leg[f] ELSE ""

\* loadConfig
LoadConfig(env, file, leg) ==
    LET env2 == GodotenvLoad(env, file)
        ip1  == Getenv(env2, "HUE_BRIDGE_IP")
        key1 == Getenv(env2, "HUE_API_KEY")
        fall == ip1 = "" \/ key1 = ""
        ip2  == IF fall /\ ip1 = "" THEN LegacyField(leg, "bridge_ip") ELSE ip1
        key2 == IF fall /\ key1 = "" THEN LegacyField(leg, "api_key") ELSE key1
    IN  IF ip2 = "" \/ key2 = ""
        THEN [ok |-> FALSE, BridgeIP |-> "", APIKey |-> ""]
        ELSE [ok |-> TRUE, BridgeIP |-> ip2, APIKey |-> key2]

\* a wrong saveConfig: appends to the file instead of replacing it
SaveConfigContent_Append(old, ip, key) ==
    old \o <<Line("HUE_BRIDGE_IP", ip), Line("HUE_API_KEY", key)>>

\* saveConfig: the content os.WriteFile leaves, whatever the file held
SaveConfigContent(old, ip, key) ==
    <<Line("HUE_BRIDGE_IP", ip), Line("HUE_API_KEY", key)>>

-----------------------------------------------------------------------------
(* createUser: the reply to the pairing POST.                              *)
(*                                                                         *)
(* A reply body is [shape, first].  shape: "malformed" (not JSON),         *)
(* "nonarray" (an object, a string, a number), "null", "badarray" (an      *)
(* array with an element that is neither an object nor null), "array".     *)
(* first is the first element of an array: [t, error, success] with t      *)
(* "none" (empty array), "null" or "object".  A member value is            *)
(* [t, s, inner]: t is "absent", "null", "str", "num" or "obj", s its text *)
(* and inner, for an object, its description / username member [t, s].     *)

Outcome(kind, val) == [kind |-> kind, val |-> val]

\* fmt's %v of a decoded JSON value: nil prints as <nil>
FormatV(v) == IF v.t \in {"absent", "null"} THEN "<nil>" ELSE v.s

CreateUserParse(body) ==
    IF body.shape \in {"malformed", "nonarray", "badarray"}
    THEN Outcome("ProtocolError", "invalid response from bridge")
    ELSE IF body.shape = "null" \/ body.first.t = "none"
    THEN Outcome("ProtocolError", "empty response from bridge")
    ELSE IF body.first.t = "object" /\ body.first.error.t # "absent"
    THEN IF body.first.error.t = "obj"
         THEN Outcome("BridgeError", FormatV(body.first.error.inner))
         ELSE Outcome("panic", "interface conversion")
    ELSE IF body.first.t = "object" /\ body.first.success.t # "absent"
    THEN IF body.first.success.t # "obj"
         THEN Outcome("panic", "interface conversion")
         ELSE IF body.first.success.inner.t = "absent"
         THEN Outcome("ProtocolError", "unexpected response from bridge")
         ELSE IF body.first.success.inner.t = "str"
         THEN Outcome("ok", body.first.success.inner.s)
         ELSE Outcome("panic", "interface conversion")
    ELSE Outcome("ProtocolError", "unexpected response from bridge")

-----------------------------------------------------------------------------
(* weather-lights: the temperature rule.                                   *)

\* a wrong rule: the hot band starts one degree late
adjustColorByTemperature_Late(baseColour, tempC) ==
    IF tempC < 0
    THEN IF baseColour \in {"warm", "orange"} THEN "cool"
         ELSE IF baseColour = "yellow" THEN "cyan" ELSE baseColour
    ELSE IF tempC >= 0 /\ tempC < 10
    THEN IF baseColour = "warm" THEN "white" ELSE baseColour
    ELSE IF tempC >= 31 /\ tempC < 38
    THEN IF baseColour \in {"cool", "white"} THEN "warm"
         ELSE IF baseColour = "warm" THEN "orange" ELSE baseColour
    ELSE IF tempC >= 38
    THEN IF baseColour \in {"cool", "white", "warm"} THEN "orange"
         ELSE IF baseColour = "yellow" THEN "red" ELSE baseColour
    ELSE baseColour

\* a wrong rule: the very hot band turns warm into a colour that is no preset
adjustColorByTemperature_Amber(baseColour, tempC) ==
    IF tempC < 0
    THEN IF baseColour \in {"warm", "orange"} THEN "cool"
         ELSE IF baseColour = "yellow" THEN "cyan" ELSE baseColour
    ELSE IF tempC >= 0 /\ tempC < 10
    THEN IF baseColour = "warm" THEN "white" ELSE baseColour
    ELSE IF tempC >= 30 /\ tempC < 38
    THEN IF baseColour \in {"cool", "white"} THEN "warm"
         ELSE IF baseColour = "warm" THEN "orange" ELSE baseColour
    ELSE IF tempC >= 38
    THEN IF baseColour \in {"cool", "white"} THEN "orange"
         ELSE IF baseColour = "warm" THEN "amber"
         ELSE IF baseColour = "yellow" THEN "red" ELSE baseColour
    ELSE baseColour

\* adjustColorByTemperature: the switch, case by case in the code's order
adjustColorByTemperature(baseColour, tempC) ==
    IF tempC < 0
    THEN IF baseColour = "warm" \/ baseColour = "orange" THEN "cool"
         ELSE IF baseColour = "yellow" THEN "cyan" ELSE baseColour
    ELSE IF tempC >= 0 /\ tempC < 10
    THEN IF baseColour = "warm" THEN "white" ELSE baseColour
    ELSE IF tempC >= 30 /\ tempC < 38
    THEN IF baseColour = "cool" \/ baseColour = "white" THEN "warm"
         ELSE IF baseColour = "warm" THEN "orange" ELSE baseColour
    ELSE IF tempC >= 38
    THEN IF baseColour = "cool" \/ baseColour = "white" \/ baseColour = "warm"
         THEN "orange"
         ELSE IF baseColour = "yellow" THEN "red" ELSE baseColour
    ELSE baseColour

\* WeatherConditions: weather code -> colour name
WeatherConditions ==
    [c \in {"113", "116", "119", "122", "143", "248", "260", "176", "263",
            "266", "293", "296", "299", "302", "305", "308", "311", "314",
            "353", "356", "359", "179", "182", "185", "227", "230", "317",
            "320", "323", "326", "329", "332", "335", "338", "350", "362",
            "365", "368", "371", "374", "377", "200", "386", "389", "392",
            "395"} |->
        CASE c \in {"113", "116"} -> "warm"
          [] c \in {"119", "122", "143", "248", "260"} -> "cool"
          [] c \in {"176", "263", "266", "293", "296", "299", "302", "305",
                    "308", "353", "356", "359"} -> "blue"
          [] c \in {"311", "314", "182", "185", "317", "320", "350", "362",
                    "365", "374", "377"} -> "cyan"
          [] c \in {"179", "227", "230", "323", "326", "329", "332", "335",
                    "338", "368", "371"} -> "white"
          [] c \in {"200", "386", "389", "392", "395"} -> "purple"]

\* a wrong default: an unknown weather code reads as "cool"
BaseColorOf_Cool(code) ==
    IF code \in DOMAIN WeatherConditions THEN WeatherConditions[code]
    ELSE "cool"

\* the base colour of a weather code: the table's, or "warm"
BaseColorOf(code) ==
    IF code \in DOMAIN WeatherConditions THEN WeatherConditions[code]
    ELSE "warm"

\* the temperatures of the model
Temps == -MaxTemp .. MaxTemp

\* strconv.Atoi with its error dropped: the number a decimal text denotes,
\* and 0 for a text that is no integer
Atoi(s) ==
    IF \E t \in Temps : ToString(t) = s
    THEN CHOOSE t \in Temps : ToString(t) = s
    ELSE 0

-----------------------------------------------------------------------------
(* The inputs of one invocation.                                           *)

NotGiven == [given |-> FALSE, val |-> 0]
Given(v) == [given |-> TRUE, val |-> v]

SetFlags(room, brightness, hue, sat, colorName) ==
    [room |-> room, brightness |-> brightness, hue |-> hue, sat |-> sat,
     color |-> colorName]

\* `set` with no flag at all: the defaults of runSet's flag set
DefaultFlags == SetFlags("all", 100, NotGiven, NotGiven, "")

HueInputs   == {NotGiven} \cup {Given(v) : v \in {-5, 0, 100, 65536}}
SatInputs   == {NotGiven} \cup {Given(v) : v \in {-3, 254, 255}}
ColorInputs == {"", "Blue", "white", "mauve"}
RoomInputs  == {"all", "ALL", "Kitchen", "Attic"}

\* every percentage with the other flags absent, and a few percentages with
\* every combination of the other flags
SetInputs ==
    {SetFlags(r, b, NotGiven, NotGiven, "") :
        r \in {"all", "Kitchen"}, b \in -1 .. MaxPercent}
    \cup
    {SetFlags(r, b, h, s, c) :
        r \in RoomInputs, b \in {0, 50}, h \in HueInputs, s \in SatInputs,
        c \in ColorInputs}

Environs ==
    {[k \in EnvNames |-> IF k = "HUE_BRIDGE_IP" THEN a ELSE b] :
        a \in {Unset, SetTo(""), SetTo("10.0.0.1")},
        b \in {Unset, SetTo(""), SetTo("envkey")}}

NoFile == [exists |-> FALSE, lines |-> <<>>]
File(lines) == [exists |-> TRUE, lines |-> lines]

EnvFiles ==
    {NoFile} \cup
    {File(a \o b) :
        a \in {<<>>, <<Line("HUE_BRIDGE_IP", "")>>,
               <<Line("HUE_BRIDGE_IP", "10.0.0.2")>>},
        b \in {<<>>, <<Line("HUE_API_KEY", "")>>,
               <<Line("HUE_API_KEY", "filekey")>>}}

Legacy(state, ip, key) == [state |-> state, bridge_ip |-> ip, api_key |-> key]

Legacies ==
    {Legacy(st, "", "") : st \in {"nohome", "missing", "malformed"}}
    \cup {Legacy("ok", a, b) : a \in {"", "10.0.0.3"}, b \in {"", "legacykey"}}

\* the configuration sources tried with set, on and off: a complete
\* environment, or nothing at all
CompleteEnv ==
    [k \in EnvNames |->
        IF k = "HUE_BRIDGE_IP" THEN SetTo("10.0.0.1") ELSE SetTo("envkey")]
NoEnv == [k \in EnvNames |-> Unset]

\* what a .env file may hold before setup runs
PriorFiles ==
    {NoFile,
     File(<<Line("HUE_BRIDGE_IP", "10.0.0.2"), Line("HUE_API_KEY", "filekey")>>),
     File(<<Line("OTHER", "1"), Line("HUE_BRIDGE_IP", "10.0.0.2"),
            Line("HUE_API_KEY", "filekey")>>)}

Stdins == {"\n", "  \n", "10.0.0.9\n", " 10.0.0.9 \n"}

\* bridge listings: at most MaxGroups groups.  The bridge assigns the ids
\* "1", "2", ...; they are never empty.
GroupIds   == {ToString(i) : i \in 1 .. MaxGroups}
GroupNames == {"KITCHEN", "Den"}
Listings   == UNION {[S -> GroupNames] : S \in SUBSET GroupIds}
NoGroups   == [k \in {} |-> ""]

\* replies to the pairing POST
Scalar(t, s) == [t |-> t, s |-> s]
Scalars == {Scalar("absent", ""), Scalar("null", ""),
            Scalar("str", "newuser"), Scalar("num", "7")}
Member(t, s, inner) == [t |-> t, s |-> s, inner |-> inner]
Absent == Member("absent", "", Scalar("absent", ""))
Members ==
    {Absent, Member("null", "", Scalar("absent", "")),
     Member("str", "oops", Scalar("absent", "")),
     Member("num", "3", Scalar("absent", ""))}
    \cup {Member("obj", "", i) : i \in Scalars}
Element(t, e, su) == [t |-> t, error |-> e, success |-> su]
Body(shape, first) == [shape |-> shape, first |-> first]
NoReply == Body("none", Element("none", Absent, Absent))
Bodies ==
    {Body(sh, Element("none", Absent, Absent)) :
        sh \in {"malformed", "nonarray", "null", "badarray", "array"}}
    \cup {Body("array", Element("null", Absent, Absent))}
    \cup {Body("array", Element("object", e, su)) : e \in Members, su \in Members}

NoErr == [kind |-> "", msg |-> ""]
Err(kind, msg) == [kind |-> kind, msg |-> msg]
NoConfig == [ok |-> FALSE, BridgeIP |-> "", APIKey |-> ""]
NoCall == [fn |-> "", on |-> FALSE, bri |-> 0, hue |-> -1, sat |-> -1, room |-> ""]
NoWeather == [status |-> "", code |-> "", tempC |-> ""]

-----------------------------------------------------------------------------
(* The initial states: a process about to run main.                        *)

InitLocals ==
    /\ pc = "main"
    /\ exitCode = 0
    /\ err = NoErr
    /\ config = NoConfig
    /\ final = [hue |-> -1, sat |-> -1, bri |-> 0]
    /\ call = NoCall
    /\ groups = NoGroups
    /\ pending = {}
    /\ reqs = <<>>
    /\ reply = NoReply
    /\ apiKey = ""
    /\ weather = NoWeather
    /\ baseColor = ""
    /\ temp = 0
    /\ color = ""
    /\ invoked = <<>>
    /\ envFile0 = envFile
    /\ environ0 = environ

InitHueControl ==
    /\ prog = "hue-control"
    /\ argc \in {1, 2}
    /\ argc = 1 => cmd = ""
    /\ \/ /\ cmd = "list"
          /\ args = DefaultFlags
          /\ stdin = ""
          /\ environ \in Environs
          /\ envFile \in EnvFiles
          /\ legacy \in Legacies
       \/ /\ cmd \in {"on", "off", "help", "-h", "--help", "bogus", ""}
          /\ args = DefaultFlags
          /\ stdin = ""
          /\ environ \in {CompleteEnv, NoEnv}
          /\ envFile \in PriorFiles
          /\ legacy = Legacy("missing", "", "")
       \/ /\ cmd = "set"
          /\ args \in SetInputs
          /\ stdin = ""
          /\ environ \in {CompleteEnv, NoEnv}
          /\ envFile = NoFile
          /\ legacy = Legacy("missing", "", "")
       \/ /\ cmd = "setup"
          /\ args = DefaultFlags
          /\ stdin \in Stdins
          /\ environ \in {CompleteEnv, NoEnv}
          /\ envFile \in PriorFiles
          /\ legacy = Legacy("missing", "", "")

-----------------------------------------------------------------------------
(* hue-control.                                                            *)

\* os.Exit(code) after printing the error, or the return from main
Exit(code, e) ==
    /\ pc' = "exit"
    /\ exitCode' = code
    /\ err' = e

Send(r) == reqs' = Append(reqs, r)

\* main: without a command the usage is printed and the status is 1;
\* otherwise the switch on os.Args[1]
Main ==
    /\ prog = "hue-control"
    /\ pc = "main"
    /\ IF argc < 2 THEN Exit(1, Err("NoCommand", ""))
       ELSE IF cmd \in {"help", "-h", "--help"} THEN Exit(0, NoErr)
       ELSE IF cmd \notin {"setup", "list", "set", "on", "off"}
       THEN Exit(1, Err("UnknownCommand", cmd))
       ELSE /\ pc' = cmd
            /\ UNCHANGED <<exitCode, err>>
    /\ UNCHANGED <<prog, argc, cmd, args, stdin, environ, environ0, envFile, envFile0, legacy,
                   config, final, call, groups, pending, reqs, reply, apiKey,
                   weather, baseColor, temp, color, invoked>>

\* runSet up to its call of loadConfig: the range checks and the colour
RunSetFlags ==
    /\ pc = "set"
    /\ IF RunSetValid(args)
       THEN /\ final' = [hue |-> FinalHue(args), sat |-> FinalSat(args),
                         bri |-> 0]
            /\ pc' = "loadConfig"
            /\ UNCHANGED <<exitCode, err>>
       ELSE /\ Exit(1, Err("ValidationError", ""))
            /\ UNCHANGED final
    /\ UNCHANGED <<prog, argc, cmd, args, stdin, environ, environ0, envFile, envFile0, legacy,
                   config, call, groups, pending, reqs, reply, apiKey,
                   weather, baseColor, temp, color, invoked>>

\* runList, runOn and runOff start with loadConfig
RunLoadsConfig ==
    /\ pc \in {"list", "on", "off"}
    /\ pc' = "loadConfig"
    /\ UNCHANGED <<prog, argc, cmd, args, stdin, environ, environ0, envFile, envFile0, legacy,
                   exitCode, err, config, final, call, groups, pending, reqs,
                   reply, apiKey, weather, baseColor, temp, color, invoked>>

\* loadConfig and the caller's check of its error
LoadConfigStep ==
    /\ pc = "loadConfig"
    /\ environ' = GodotenvLoad(environ, envFile)
    /\ config' = LoadConfig(environ, envFile, legacy)
    /\ IF config'.ok
       THEN /\ pc' = "configured"
            /\ UNCHANGED <<exitCode, err>>
       ELSE Exit(1, Err("ConfigurationMissing", ""))
    /\ UNCHANGED <<prog, argc, cmd, args, stdin, environ0, envFile, envFile0, legacy, final,
                   call, groups, pending, reqs, reply, apiKey, weather,
                   baseColor, temp, color, invoked>>

SetAllLightsCall(on, bri, hue, sat) ==
    [fn |-> "all", on |-> on, bri |-> bri, hue |-> hue, sat |-> sat, room |-> ""]

SetRoomStateCall(room, bri, hue, sat) ==
    [fn |-> "room", on |-> TRUE, bri |-> bri, hue |-> hue, sat |-> sat,
     room |-> room]

\* runSet after loadConfig: the brightness conversion and the choice of
\* setAllLights or setRoomState
RunSetCall ==
    /\ pc = "configured"
    /\ cmd = "set"
    /\ final' = [final EXCEPT !.bri = HueBrightness(args.brightness)]
    /\ call' = IF ToLower(args.room) = "all"
               THEN SetAllLightsCall(TRUE, final'.bri, final.hue, final.sat)
               ELSE SetRoomStateCall(args.room, final'.bri, final.hue, final.sat)
    /\ pc' = "getGroups"
    /\ UNCHANGED <<prog, argc, cmd, args, stdin, environ, environ0, envFile, envFile0, legacy,
                   exitCode, err, config, groups, pending, reqs, reply, apiKey,
                   weather, baseColor, temp, color, invoked>>

\* runOn: setAllLights(config, true, 254, -1, -1)
RunOn ==
    /\ pc = "configured"
    /\ cmd = "on"
    /\ call' = SetAllLightsCall(TRUE, 254, -1, -1)
    /\ pc' = "getGroups"
    /\ UNCHANGED <<prog, argc, cmd, args, stdin, environ, environ0, envFile, envFile0, legacy,
                   exitCode, err, config, final, groups, pending, reqs, reply,
                   apiKey, weather, baseColor, temp, color, invoked>>

\* runOff: setAllLights(config, false, 0, -1, -1)
RunOff ==
    /\ pc = "configured"
    /\ cmd = "off"
    /\ call' = SetAllLightsCall(FALSE, 0, -1, -1)
    /\ pc' = "getGroups"
    /\ UNCHANGED <<prog, argc, cmd, args, stdin, environ, environ0, envFile, envFile0, legacy,
                   exitCode, err, config, final, groups, pending, reqs, reply,
                   apiKey, weather, baseColor, temp, color, invoked>>

\* runList after loadConfig
RunList ==
    /\ pc = "configured"
    /\ cmd = "list"
    /\ pc' = "getGroups"
    /\ UNCHANGED <<prog, argc, cmd, args, stdin, environ, environ0, envFile, envFile0, legacy,
                   exitCode, err, config, final, call, groups, pending, reqs,
                   reply, apiKey, weather, baseColor, temp, color, invoked>>

\* getGroups, as runList, setAllLights and setRoomState call it first: the
\* GET fails, or its body is no JSON object of groups, or it is a listing
\* (a body of null decodes to no group at all)
GetGroups ==
    /\ pc = "getGroups"
    /\ \/ /\ Send(Request("GET", "groups", NoBody, "none"))
          /\ Exit(1, Err("BridgeUnreachable", ""))
          /\ UNCHANGED groups
       \/ /\ Send(Request("GET", "groups", NoBody, "error"))
          /\ Exit(1, Err("ProtocolError", ""))
          /\ UNCHANGED groups
       \/ \E l \in Listings :
             /\ Send(Request("GET", "groups", NoBody, "success"))
             /\ groups' = l
             /\ pc' = IF cmd = "list" THEN "display"
                      ELSE IF call.fn = "all" THEN "putAll" ELSE "putRoom"
             /\ UNCHANGED <<exitCode, err>>
    /\ UNCHANGED <<prog, argc, cmd, args, stdin, environ, environ0, envFile, envFile0, legacy,
                   config, final, call, pending, reply, apiKey, weather,
                   baseColor, temp, color, invoked>>

\* runList: the table of groups
RunListDisplay ==
    /\ pc = "display"
    /\ Exit(0, NoErr)
    /\ UNCHANGED <<prog, argc, cmd, args, stdin, environ, environ0, envFile, envFile0, legacy,
                   config, final, call, groups, pending, reqs, reply, apiKey,
                   weather, baseColor, temp, color, invoked>>

\* a wrong setAllLights: the loop over the groups runs after every PUT to
\* group 0
SetAllLightsPut_AlwaysFallback ==
    /\ pc = "putAll"
    /\ \E response \in Responses :
          /\ Send(Request("PUT", "0",
                          AllState(call.on, call.bri, call.hue, call.sat),
                          response))
          /\ pc' = "fallback"
          /\ pending' = DOMAIN groups
          /\ UNCHANGED <<exitCode, err>>
    /\ UNCHANGED <<prog, argc, cmd, args, stdin, environ, environ0, envFile, envFile0, legacy,
                   config, final, call, groups, reply, apiKey, weather,
                   baseColor, temp, color, invoked>>

\* setAllLights: the PUT to group 0; on an error of client.Do the fallback
\* loop starts; the response is closed without being read, whatever it says
SetAllLightsPut ==
    /\ pc = "putAll"
    /\ \E response \in Responses :
          /\ Send(Request("PUT", "0",
                          AllState(call.on, call.bri, call.hue, call.sat),
                          response))
          /\ IF response # "none"
             THEN /\ Exit(0, NoErr)
                  /\ UNCHANGED pending
             ELSE /\ pc' = "fallback"
                  /\ pending' = DOMAIN groups
                  /\ UNCHANGED <<exitCode, err>>
    /\ UNCHANGED <<prog, argc, cmd, args, stdin, environ, environ0, envFile, envFile0, legacy,
                   config, final, call, groups, reply, apiKey, weather,
                   baseColor, temp, color, invoked>>

\* a wrong loop: the first failed PUT ends it
SetAllLightsFallback_Abort ==
    /\ pc = "fallback"
    /\ pending # {}
    /\ \E id \in pending, response \in Responses :
          /\ Send(Request("PUT", id,
                          AllState(call.on, call.bri, call.hue, call.sat),
                          response))
          /\ pending' = IF response # "none" THEN pending \ {id} ELSE {}
    /\ UNCHANGED <<prog, argc, cmd, args, stdin, environ, environ0, envFile, envFile0, legacy,
                   pc, exitCode, err, config, final, call, groups, reply,
                   apiKey, weather, baseColor, temp, color, invoked>>

\* setAllLights: one round of the fallback loop over the listing, in the
\* order Go's map iteration happens to give; an error is skipped
SetAllLightsFallback ==
    /\ pc = "fallback"
    /\ pending # {}
    /\ \E id \in pending, response \in Responses :
          /\ Send(Request("PUT", id,
                          AllState(call.on, call.bri, call.hue, call.sat),
                          response))
          /\ pending' = pending \ {id}
    /\ UNCHANGED <<prog, argc, cmd, args, stdin, environ, environ0, envFile, envFile0, legacy,
                   pc, exitCode, err, config, final, call, groups, reply,
                   apiKey, weather, baseColor, temp, color, invoked>>

\* setAllLights: the loop is over, return nil
SetAllLightsReturn ==
    /\ pc = "fallback"
    /\ pending = {}
    /\ Exit(0, NoErr)
    /\ UNCHANGED <<prog, argc, cmd, args, stdin, environ, environ0, envFile, envFile0, legacy,
                   config, final, call, groups, pending, reqs, reply, apiKey,
                   weather, baseColor, temp, color, invoked>>

\* the groups the search loop of setRoomState can stop at: map iteration
\* order is unspecified, so any group whose name matches
RoomMatches(listing, roomName) ==
    {id \in DOMAIN listing : EqualFold(listing[id], roomName)}

\* setRoomState after getGroups: the search for the room and the PUT, whose
\* response is closed without being read, whatever it says
SetRoomState ==
    /\ pc = "putRoom"
    /\ IF RoomMatches(groups, call.room) = {}
       THEN /\ Exit(1, Err("RoomNotFound", call.room))
            /\ UNCHANGED reqs
       ELSE \E id \in RoomMatches(groups, call.room), response \in Responses :
               /\ Send(Request("PUT", id,
                               RoomState(call.bri, call.hue, call.sat),
                               response))
               /\ IF response # "none" THEN Exit(0, NoErr)
                  ELSE Exit(1, Err("BridgeUnreachable", ""))
    /\ UNCHANGED <<prog, argc, cmd, args, stdin, environ, environ0, envFile, envFile0, legacy,
                   config, final, call, groups, pending, reply, apiKey,
                   weather, baseColor, temp, color, invoked>>

\* runSetup up to createUser: the address typed at the prompt
RunSetupPrompt ==
    /\ pc = "setup"
    /\ IF TrimSpace(stdin) = ""
       THEN Exit(1, Err("AddressRequired", ""))
       ELSE /\ pc' = "createUser"
            /\ UNCHANGED <<exitCode, err>>
    /\ UNCHANGED <<prog, argc, cmd, args, stdin, environ, environ0, envFile, envFile0, legacy,
                   config, final, call, groups, pending, reqs, reply, apiKey,
                   weather, baseColor, temp, color, invoked>>

\* createUser and runSetup's check of its error: the POST fails, or the
\* reply is decoded; a failed type assertion is a panic, which ends the
\* process with status 2
CreateUser ==
    /\ pc = "createUser"
    /\ \/ /\ Send(Request("POST", "api", PairingBody, "none"))
          /\ Exit(1, Err("BridgeUnreachable", ""))
          /\ UNCHANGED <<reply, apiKey>>
       \/ \E b \in Bodies :
             LET out == CreateUserParse(b)
             IN  /\ Send(Request("POST", "api", PairingBody,
                                  IF out.kind = "ok" THEN "success"
                                  ELSE "error"))
                 /\ reply' = b
                 /\ IF out.kind = "ok"
                    THEN /\ apiKey' = out.val
                         /\ pc' = "saveConfig"
                         /\ UNCHANGED <<exitCode, err>>
                    ELSE /\ Exit(IF out.kind = "panic" THEN 2 ELSE 1,
                                 Err(out.kind, out.val))
                         /\ UNCHANGED apiKey
    /\ UNCHANGED <<prog, argc, cmd, args, stdin, environ, environ0, envFile, envFile0, legacy,
                   config, final, call, groups, pending, weather, baseColor,
                   temp, color, invoked>>

\* saveConfig and the end of runSetup.  os.WriteFile either cannot open the
\* file (nothing changes), or truncates it and fails to write, or writes it.
SaveConfig ==
    /\ pc = "saveConfig"
    /\ \/ /\ envFile' = File(SaveConfigContent(envFile.lines,
                                                TrimSpace(stdin), apiKey))
          /\ Exit(0, NoErr)
       \/ /\ UNCHANGED envFile
          /\ Exit(1, Err("SaveFailed", "open"))
       \/ /\ envFile' = File(<<>>)
          /\ Exit(1, Err("SaveFailed", "write"))
    /\ UNCHANGED <<prog, argc, cmd, args, stdin, environ, environ0, envFile0, legacy, config,
                   final, call, groups, pending, reqs, reply, apiKey, weather,
                   baseColor, temp, color, invoked>>

InitWeather ==
    /\ prog = "weather-lights"
    /\ argc = 1
    /\ cmd = ""
    /\ args \in {[location |-> "", room |-> r, brightness |-> 80, dryRun |-> d] :
                    r \in {"all", "ALL", "Kitchen"}, d \in BOOLEAN}
    /\ stdin = ""
    /\ environ = CompleteEnv
    /\ envFile = NoFile
    /\ legacy = Legacy("missing", "", "")

Init ==
    /\ \/ InitHueControl
       \/ InitWeather
    /\ InitLocals

-----------------------------------------------------------------------------
(* weather-lights.                                                         *)

WeatherCodes == DOMAIN WeatherConditions \cup {"999", ""}
TempTexts == {ToString(t) : t \in Temps} \cup {"", "12.5"}

\* main up to the check of the current conditions: getWeather fails (the
\* request, or the decoding), or there is no current condition, or there
\* is one
WeatherFetch ==
    /\ prog = "weather-lights"
    /\ pc = "main"
    /\ \/ /\ weather' = [status |-> "unavailable", code |-> "", tempC |-> ""]
          /\ Exit(1, Err("WeatherUnavailable", ""))
       \/ /\ weather' = [status |-> "empty", code |-> "", tempC |-> ""]
          /\ Exit(1, Err("NoWeatherData", ""))
       \/ \E c \in WeatherCodes, t \in TempTexts :
             /\ weather' = [status |-> "ok", code |-> c, tempC |-> t]
             /\ pc' = "resolve"
             /\ UNCHANGED <<exitCode, err>>
    /\ UNCHANGED <<prog, argc, cmd, args, stdin, environ, environ0, envFile, envFile0, legacy,
                   config, final, call, groups, pending, reqs, reply, apiKey,
                   baseColor, temp, color, invoked>>

\* a wrong main: the temperature rule applied to its own result
WeatherResolve_Twice ==
    /\ pc = "resolve"
    /\ baseColor' = BaseColorOf(weather.code)
    /\ temp' = Atoi(weather.tempC)
    /\ color' = adjustColorByTemperature(
                    adjustColorByTemperature(baseColor', temp'), temp')
    /\ pc' = "report"
    /\ UNCHANGED <<prog, argc, cmd, args, stdin, environ, environ0, envFile, envFile0, legacy,
                   exitCode, err, config, final, call, groups, pending, reqs,
                   reply, apiKey, weather, invoked>>

\* main: the base colour, the temperature and the adjusted colour
WeatherResolve ==
    /\ pc = "resolve"
    /\ baseColor' = BaseColorOf(weather.code)
    /\ temp' = Atoi(weather.tempC)
    /\ color' = adjustColorByTemperature(baseColor', temp')
    /\ pc' = "report"
    /\ UNCHANGED <<prog, argc, cmd, args, stdin, environ, environ0, envFile, envFile0, legacy,
                   exitCode, err, config, final, call, groups, pending, reqs,
                   reply, apiKey, weather, invoked>>

\* main with --dry-run: report and return
WeatherDryRun ==
    /\ pc = "report"
    /\ args.dryRun
    /\ Exit(0, NoErr)
    /\ UNCHANGED <<prog, argc, cmd, args, stdin, environ, environ0, envFile, envFile0, legacy,
                   config, final, call, groups, pending, reqs, reply, apiKey,
                   weather, baseColor, temp, color, invoked>>

\* a wrong command line: --room is passed whatever the room
HueControlArgs_AlwaysRoom(a, col) ==
    <<"set", "--color", col, "--brightness", ToString(a.brightness)>>
    \o <<"--room", a.room>>

\* the command line main builds for hue-control
HueControlArgs(a, col) ==
    <<"set", "--color", col, "--brightness", ToString(a.brightness)>>
    \o (IF a.room # "all" THEN <<"--room", a.room>> ELSE <<>>)

\* main without --dry-run: findHueControl finds no executable, or the
\* executable is run once and fails or succeeds
WeatherDelegate ==
    /\ pc = "report"
    /\ ~args.dryRun
    /\ \/ /\ Exit(1, Err("DependencyMissing", ""))
          /\ UNCHANGED invoked
       \/ /\ invoked' = Append(invoked, HueControlArgs(args, color))
          /\ \/ Exit(1, Err("SetFailed", ""))
             \/ Exit(0, NoErr)
    /\ UNCHANGED <<prog, argc, cmd, args, stdin, environ, environ0, envFile, envFile0, legacy,
                   config, final, call, groups, pending, reqs, reply, apiKey,
                   weather, baseColor, temp, color>>

-----------------------------------------------------------------------------
(* The two programs.                                                       *)

Next ==
    \/ Main
    \/ RunSetFlags
    \/ RunLoadsConfig
    \/ LoadConfigStep
    \/ RunSetCall
    \/ RunOn
    \/ RunOff
    \/ RunList
    \/ GetGroups
    \/ RunListDisplay
    \/ SetAllLightsPut
    \/ SetAllLightsFallback
    \/ SetAllLightsReturn
    \/ SetRoomState
    \/ RunSetupPrompt
    \/ CreateUser
    \/ SaveConfig
    \/ WeatherFetch
    \/ WeatherResolve
    \/ WeatherDryRun
    \/ WeatherDelegate

Spec == Init /\ [][Next]_vars

-----------------------------------------------------------------------------
(* adjustColorByTemperature on its own, applied to every preset name and   *)
(* every temperature of the model.                                         *)

InitAdjust ==
    /\ prog = "adjustColorByTemperature"
    /\ argc = 1
    /\ cmd = ""
    /\ args = DefaultFlags
    /\ stdin = ""
    /\ environ = NoEnv
    /\ envFile = NoFile
    /\ legacy = Legacy("missing", "", "")
    /\ pc = "main"
    /\ exitCode = 0
    /\ err = NoErr
    /\ config = NoConfig
    /\ final = [hue |-> -1, sat |-> -1, bri |-> 0]
    /\ call = NoCall
    /\ groups = NoGroups
    /\ pending = {}
    /\ reqs = <<>>
    /\ reply = NoReply
    /\ apiKey = ""
    /\ weather = NoWeather
    /\ baseColor \in PresetNames
    /\ temp \in Temps
    /\ color = ""
    /\ invoked = <<>>
    /\ envFile0 = envFile
    /\ environ0 = environ

ApplyAdjust ==
    /\ prog = "adjustColorByTemperature"
    /\ pc = "main"
    /\ color' = adjustColorByTemperature(baseColor, temp)
    /\ pc' = "exit"
    /\ UNCHANGED <<prog, argc, cmd, args, stdin, environ, environ0, envFile, envFile0, legacy,
                   exitCode, err, config, final, call, groups, pending, reqs,
                   reply, apiKey, weather, baseColor, temp, invoked>>

SpecAdjust == InitAdjust /\ [][ApplyAdjust]_vars

-----------------------------------------------------------------------------
(* What the properties below read from a state.                            *)

IsPut(r) == r.method = "PUT"

\* the state-change requests sent so far, in order
Puts == SelectSeq(reqs, IsPut)

IsSet == prog = "hue-control" /\ cmd = "set"

\* the process has ended and its group listing had succeeded
Listed ==
    /\ pc = "exit"
    /\ Len(reqs) >= 1
    /\ reqs[1].method = "GET"
    /\ reqs[1].ok
    /\ err.kind # "ProtocolError"

\* runSet has converted the percentage
Converted == IsSet /\ call.fn # ""

-----------------------------------------------------------------------------
(* C1: the brightness conversion.                                          *)

\* round(p/100 x 254), halves up, with the floor of 1 for a positive p
RoundedScale(p) ==
    LET r == (p * 254 + 50) \div 100
    IN  IF p > 0 /\ r < 1 THEN 1 ELSE r

\* C1 as stated: for every accepted percentage p the device brightness is
\* p/100 x 254 rounded to nearest (at least 1 for p > 0).
C1_RoundedToNearest ==
    Converted => final.bri = RoundedScale(args.brightness)

\* C1 amended: for every accepted percentage p the device brightness b is
\* p/100 x 254 with its fraction dropped (b <= p x 2.54 < b + 1); a positive
\* p gives at least 1, p = 0 gives 0 and p = 100 gives 254.
C1_TruncatedScale ==
    Converted =>
        /\ args.brightness \in 0 .. 100
        /\ final.bri * 100 <= args.brightness * 254
        /\ args.brightness * 254 < (final.bri + 1) * 100
        /\ (args.brightness > 0 => final.bri >= 1)
        /\ (args.brightness = 0 => final.bri = 0)
        /\ (args.brightness = 100 => final.bri = 254)

\* 1 percent has been converted: 2.54 becomes 2
C1_Witness == Converted /\ args.brightness = 1 /\ final.bri = 2

-----------------------------------------------------------------------------
(* C2: validation before any request.                                      *)

\* the flags C2 calls invalid
ClaimedInvalid(a) ==
    \/ a.brightness \notin 0 .. 100
    \/ a.hue.given /\ a.hue.val \notin 0 .. 65535
    \/ a.sat.given /\ a.sat.val \notin 0 .. 254
    \/ a.color # "" /\ ToLower(a.color) \notin PresetNames

\* C2: a set with a brightness outside 0..100, an explicit hue outside
\* 0..65535 or an explicit saturation outside 0..254 (negative values
\* included), or an unknown colour, is rejected: it sends no request to the
\* bridge and does not end with status 0.
C2_InvalidFlagsRejected ==
    IsSet /\ ClaimedInvalid(args) =>
        /\ reqs = <<>>
        /\ (pc = "exit" => exitCode # 0)

-----------------------------------------------------------------------------
(* C3: a named room.                                                       *)

\* C3: a set on a named room whose listing succeeded fails with RoomNotFound
\* and sends no PUT when no group's name equals the room's ignoring case,
\* and otherwise sends exactly one PUT, to a group with such a name.
C3_NamedRoomResolution ==
    IsSet /\ Listed /\ ToLower(args.room) # "all" =>
        IF \A id \in DOMAIN groups : ToLower(groups[id]) # ToLower(args.room)
        THEN /\ err.kind = "RoomNotFound"
             /\ exitCode # 0
             /\ Puts = <<>>
        ELSE /\ Len(Puts) = 1
             /\ Puts[1].target \in DOMAIN groups
             /\ ToLower(groups[Puts[1].target]) = ToLower(args.room)

\* "Kitchen" was asked for, the bridge lists "KITCHEN", and the PUT went to it
C3_Witness ==
    /\ IsSet /\ Listed
    /\ args.room = "Kitchen"
    /\ Len(Puts) = 1
    /\ groups[Puts[1].target] = "KITCHEN"

-----------------------------------------------------------------------------
(* C4: the broadcast to all lights.                                        *)

\* the targets of the PUTs after the first
FallbackTargets == {Puts[i].target : i \in 2 .. Len(Puts)}

\* C4: in setAllLights the first PUT goes to group "0"; if it succeeds no
\* other PUT follows; if it fails, every group of the listing gets exactly
\* one PUT with the same body, whatever the outcome of the others, and the
\* process ends with success.
C4_Broadcast ==
    call.fn = "all" /\ Puts # <<>> =>
        /\ Puts[1].target = "0"
        /\ (Puts[1].ok => Len(Puts) = 1)
        /\ \A i \in 2 .. Len(Puts) :
              /\ Puts[i].body = Puts[1].body
              /\ Puts[i].target \in DOMAIN groups
              /\ \A j \in 2 .. Len(Puts) :
                    Puts[j].target = Puts[i].target => j = i
        /\ (pc = "exit" =>
              /\ exitCode = 0
              /\ err = NoErr
              /\ (~Puts[1].ok => FallbackTargets = DOMAIN groups))

\* the PUT to "0" failed, the next PUT failed too, and one more followed
C4_Witness ==
    /\ call.fn = "all"
    /\ pc = "exit"
    /\ Len(Puts) = 3
    /\ ~Puts[1].ok
    /\ ~Puts[2].ok
    /\ exitCode = 0

-----------------------------------------------------------------------------
(* C5: on and off against set.                                             *)

\* the body runSet hands to setAllLights for `set --brightness b` with no
\* other flag
SetBrightnessBody(b) ==
    LET a == [DefaultFlags EXCEPT !.brightness = b]
    IN  AllState(TRUE, HueBrightness(b), FinalHue(a), FinalSat(a))

\* C5: every PUT of `on` carries the body of `set --brightness 100`, every
\* PUT of `off` the body of `set --brightness 0`, and neither body has a hue
\* or a sat field.
C5_OnOffAsSet ==
    prog = "hue-control" =>
        \A i \in 1 .. Len(Puts) :
            /\ (cmd = "set" /\ args = [DefaultFlags EXCEPT !.brightness = 100]
                   => Puts[i].body = SetBrightnessBody(100))
            /\ (cmd = "set" /\ args = [DefaultFlags EXCEPT !.brightness = 0]
                   => Puts[i].body = SetBrightnessBody(0))
            /\ (cmd = "on" => Puts[i].body = SetBrightnessBody(100))
            /\ (cmd = "off" => Puts[i].body = SetBrightnessBody(0))
            /\ (cmd \in {"on", "off"} =>
                   DOMAIN Puts[i].body \cap {"hue", "sat"} = {})

-----------------------------------------------------------------------------
(* C6: hue and saturation, field by field.                                 *)

\* the value a field must carry, or -1 for a field that must be absent
Expected(flag, max, colorName, n) ==
    IF flag.given /\ flag.val \in 0 .. max THEN flag.val
    ELSE IF colorName # "" THEN ColorPresets[ToLower(colorName)][n]
    ELSE -1

CarriesExactly(body, k, v) ==
    IF v = -1 THEN k \notin DOMAIN body
    ELSE k \in DOMAIN body /\ body[k] = v

\* C6: every PUT of a set carries as hue the explicit --hue if given in
\* range, else the hue of the --color preset (name matched ignoring case),
\* else no hue; and the same for sat.
C6_ColorResolution ==
    IsSet =>
        \A i \in 1 .. Len(Puts) :
            /\ CarriesExactly(Puts[i].body, "hue",
                              Expected(args.hue, 65535, args.color, 1))
            /\ CarriesExactly(Puts[i].body, "sat",
                              Expected(args.sat, 254, args.color, 2))

\* set --color Blue --hue 100 has sent hue 100 and sat 254
C6_Witness ==
    /\ IsSet
    /\ args.color = "Blue" /\ args.hue = Given(100) /\ ~args.sat.given
    /\ Puts # <<>>
    /\ Puts[1].body["hue"] = 100
    /\ Puts[1].body["sat"] = 254

-----------------------------------------------------------------------------
(* C7: the outcomes of createUser.                                         *)

\* the bridge has answered the POST, and createUser has returned or has
\* ended the process
CreateUserOver == cmd = "setup" /\ reply # NoReply

HasObjectFirst == reply.shape = "array" /\ reply.first.t = "object"

\* C7: whatever the body of the reply, createUser ends in a BridgeError with
\* the description (the first element has an error object), in the
\* credential (it has a success object with a username string), or in a
\* ProtocolError (every other shape), and never in a crash.
C7_CreateUserOutcomes ==
    CreateUserOver =>
        /\ err.kind # "panic"
        /\ exitCode # 2
        /\ IF HasObjectFirst /\ reply.first.error.t = "obj"
           THEN /\ err.kind = "BridgeError"
                /\ err.msg = FormatV(reply.first.error.inner)
           ELSE IF /\ HasObjectFirst
                   /\ reply.first.error.t = "absent"
                   /\ reply.first.success.t = "obj"
                   /\ reply.first.success.inner.t = "str"
           THEN /\ err.kind \notin {"BridgeError", "ProtocolError"}
                /\ apiKey = reply.first.success.inner.s
           ELSE err.kind = "ProtocolError"

-----------------------------------------------------------------------------
(* C8: who writes the credential file.                                     *)

\* the commands that only read the configuration
Readers == {"list", "set", "on", "off"}

\* the reply carried a credential
Paired ==
    /\ HasObjectFirst
    /\ reply.first.success.t = "obj"
    /\ reply.first.success.inner.t = "str"

\* C8: after a successful setup the file holds exactly the two lines
\* HUE_BRIDGE_IP=<address typed, trimmed> and HUE_API_KEY=<credential>; after
\* a setup that failed on an empty address, a network error, a BridgeError
\* or a ProtocolError, and during and after list, set, on and off, the file
\* is as it was; and it changes only in a setup whose pairing succeeded.
C8_CredentialFile ==
    prog = "hue-control" =>
        /\ (cmd = "setup" /\ pc = "exit" /\ exitCode = 0 =>
              /\ envFile.exists
              /\ Len(envFile.lines) = 2
              /\ envFile.lines[1] = Line("HUE_BRIDGE_IP", TrimSpace(stdin))
              /\ envFile.lines[2] =
                    Line("HUE_API_KEY", reply.first.success.inner.s))
        /\ (/\ cmd = "setup"
            /\ pc = "exit"
            /\ err.kind \in {"AddressRequired", "BridgeUnreachable",
                             "BridgeError", "ProtocolError"}
            => envFile = envFile0)
        /\ (cmd \in Readers => envFile = envFile0)
        /\ (envFile # envFile0 => cmd = "setup" /\ Paired)

\* a setup has replaced a file of three lines by the two new ones
C8_Witness ==
    /\ cmd = "setup"
    /\ pc = "exit"
    /\ exitCode = 0
    /\ Len(envFile0.lines) = 3
    /\ envFile = File(<<Line("HUE_BRIDGE_IP", "10.0.0.9"),
                        Line("HUE_API_KEY", "newuser")>>)

-----------------------------------------------------------------------------
(* C9: the precedence of the configuration sources.                        *)

\* the first non-empty string of a sequence, "" when there is none
FirstNonEmpty(vs) ==
    IF \A i \in DOMAIN vs : vs[i] = "" THEN ""
    ELSE vs[CHOOSE i \in DOMAIN vs : vs[i] # "" /\ \A j \in 1 .. i - 1 : vs[j] = ""]

\* what a source holds for a field, "" when it holds nothing
FromEnv(k) == IF environ0[k].set THEN environ0[k].val ELSE ""
FromFile(k) ==
    IF envFile0.exists /\ HasKey(envFile0.lines, k)
    THEN FileValue(envFile0.lines, k) ELSE ""
FromLegacy(f) == IF legacy.state = "ok" THEN legacy[f] ELSE ""

ClaimedIP ==
    FirstNonEmpty(<<FromEnv("HUE_BRIDGE_IP"), FromFile("HUE_BRIDGE_IP"),
                    FromLegacy("bridge_ip")>>)
ClaimedKey ==
    FirstNonEmpty(<<FromEnv("HUE_API_KEY"), FromFile("HUE_API_KEY"),
                    FromLegacy("api_key")>>)

\* loadConfig has returned
ConfigLoaded ==
    /\ prog = "hue-control"
    /\ config.ok \/ err.kind = "ConfigurationMissing"

\* C9: each field is the first non-empty value among the environment
\* variable, the .env file and the legacy file (an empty environment
\* variable does not hide the .env value), and loadConfig fails exactly when
\* a field is empty in all three.
C9_ConfigPrecedence ==
    ConfigLoaded =>
        /\ config.ok <=> (ClaimedIP # "" /\ ClaimedKey # "")
        /\ (config.ok =>
              /\ config.BridgeIP = ClaimedIP
              /\ config.APIKey = ClaimedKey)

-----------------------------------------------------------------------------
(* C10: the temperature bands.                                             *)

\* the rule as the band table gives it
BandTable(c, t) ==
    CASE t <= -1 ->
            (CASE c \in {"warm", "orange"} -> "cool"
               [] c = "yellow" -> "cyan"
               [] OTHER -> c)
      [] t \in 0 .. 9 ->
            (CASE c = "warm" -> "white"
               [] OTHER -> c)
      [] t \in 10 .. 29 -> c
      [] t \in 30 .. 37 ->
            (CASE c \in {"cool", "white"} -> "warm"
               [] c = "warm" -> "orange"
               [] OTHER -> c)
      [] t >= 38 ->
            (CASE c \in {"cool", "white", "warm"} -> "orange"
               [] c = "yellow" -> "red"
               [] OTHER -> c)

\* C10: for every preset name and every temperature the adjusted colour is
\* the one of the band table, with the bands < 0, 0..9, 10..29, 30..37, >= 38.
C10_BandTable ==
    prog = "adjustColorByTemperature" /\ pc = "exit" =>
        color = BandTable(baseColor, temp)

\* warm at 30 degrees, the first of its band, has become orange
C10_Witness ==
    /\ prog = "adjustColorByTemperature"
    /\ pc = "exit"
    /\ baseColor = "warm" /\ temp = 30 /\ color = "orange"

-----------------------------------------------------------------------------
(* C11..C14: weather-lights.                                               *)

\* main has resolved the colour of this invocation
Resolved == prog = "weather-lights" /\ pc \in {"report", "exit"} /\ weather.status = "ok"

\* the reported temperature, when its text is an integer of the model
Reported(t) == weather.tempC = ToString(t)

\* C11: whatever the weather code and the temperature, the resolved colour is
\* a key of the preset table of hue-control, and so is the colour of a
\* delegated set command, which hue-control therefore does not reject as
\* unknown.
C11_ResolvedColorIsPreset ==
    /\ Resolved =>
          /\ color \in DOMAIN ColorPresets
          /\ ToLower(color) \in DOMAIN ColorPresets
    /\ \A i \in DOMAIN invoked :
          /\ invoked[i][2] = "--color"
          /\ ToLower(invoked[i][3]) \in DOMAIN ColorPresets

\* an unknown code at 40 degrees has been delegated as orange
C11_Witness ==
    /\ Resolved
    /\ weather.code = "999" /\ temp = 40
    /\ invoked # <<>> /\ invoked[1][3] = "orange"

\* C12: the temperature rule is applied once to the base colour: the resolved
\* colour is the band table's colour for the base colour, not the band
\* table's colour for that colour again; cool at 35 degrees resolves to warm
\* and code 113 at 35 degrees to orange.
C12_RuleAppliedOnce ==
    Resolved =>
        /\ color = BandTable(baseColor, temp)
        /\ (baseColor = "cool" /\ temp = 35 => color = "warm")
        /\ (weather.code = "113" /\ Reported(35) => color = "orange")

\* cool at 35 degrees has resolved to warm, where a second application
\* would have given orange
C12_Witness ==
    /\ Resolved
    /\ baseColor = "cool" /\ temp = 35 /\ color = "warm"
    /\ BandTable(color, temp) = "orange"

\* C13: a code that is not in the table has base colour warm, is no error,
\* and resolves to the band table's colour for warm at the reported
\* temperature; a code of the table has the table's base colour, and 302
\* at -5 degrees stays blue.
C13_UnknownCodeIsWarm ==
    /\ prog = "weather-lights" /\ weather.status = "ok" =>
          err.kind \notin {"WeatherUnavailable", "NoWeatherData"}
    /\ Resolved =>
          /\ weather.code \notin DOMAIN WeatherConditions =>
                /\ baseColor = "warm"
                /\ \A t \in Temps : Reported(t) => color = BandTable("warm", t)
          /\ weather.code \in DOMAIN WeatherConditions =>
                baseColor = WeatherConditions[weather.code]
          /\ weather.code = "302" /\ Reported(-5) =>
                baseColor = "blue" /\ color = "blue"

\* code 999 at 5 degrees has resolved to white, from warm, and the run has
\* ended well
C13_Witness ==
    /\ Resolved
    /\ weather.code = "999" /\ Reported(5)
    /\ baseColor = "warm" /\ color = "white"
    /\ pc = "exit" /\ exitCode = 0

\* the command line the claim describes
ClaimedCommand ==
    IF args.room = "all"
    THEN <<"set", "--color", color, "--brightness", ToString(args.brightness)>>
    ELSE <<"set", "--color", color, "--brightness", ToString(args.brightness),
           "--room", args.room>>

\* C14: hue-control is invoked at most once and only after a fetch that gave
\* a current condition; with --dry-run nothing is searched, invoked or
\* changed; without it a finished run has invoked hue-control exactly once
\* with set, the colour, the brightness and --room exactly when the room is
\* not "all", or has failed with DependencyMissing and invoked nothing.
C14_DelegatesOnce ==
    prog = "weather-lights" =>
        /\ Len(invoked) <= 1
        /\ invoked # <<>> => Resolved /\ ~args.dryRun /\ invoked[1] = ClaimedCommand
        /\ args.dryRun =>
              /\ invoked = <<>> /\ reqs = <<>>
              /\ envFile = envFile0 /\ environ = environ0
              /\ err.kind # "DependencyMissing"
              /\ (Resolved /\ pc = "exit" => exitCode = 0)
        /\ ~args.dryRun /\ Resolved /\ pc = "exit" =>
              \/ Len(invoked) = 1 /\ err.kind # "DependencyMissing"
              \/ invoked = <<>> /\ err.kind = "DependencyMissing" /\ exitCode # 0

\* a run for all lights has delegated a set command without --room
C14_Witness ==
    /\ prog = "weather-lights" /\ pc = "exit" /\ ~args.dryRun
    /\ args.room = "all"
    /\ invoked = <<<<"set", "--color", color, "--brightness", "80">>>>

-----------------------------------------------------------------------------
(* C15: failures and the exit status.                                      *)

\* a write of the all-lights broadcast whose failure the text lets pass: a
\* write to one group of the listing, and the write to group "0" that got
\* no response and so started the loop over the groups
Absorbed(r) ==
    /\ call.fn = "all"
    /\ r.method = "PUT"
    /\ r.target # "0" \/ r.response = "none"

\* C15: list, set, on and off end with status 0 only if no failure occurred:
\* no error kind was raised, and every request got a response reporting
\* success, but for the absorbed writes of the all-lights broadcast.
C15_FailuresAreTerminal ==
    /\ prog = "hue-control"
    /\ cmd \in {"list", "set", "on", "off"}
    /\ pc = "exit"
    /\ exitCode = 0
    => /\ err = NoErr
       /\ \A i \in DOMAIN reqs : reqs[i].response = "success" \/ Absorbed(reqs[i])

-----------------------------------------------------------------------------
(* C16: the order of the requests.                                         *)

\* C16: in set, on and off the only requests are one listing GET and PUTs;
\* the GET, if any, is the first request; a PUT is sent only after a listing
\* that succeeded; and a second PUT is sent only by the all-lights broadcast
\* after its PUT to group "0" failed.
C16_RequestOrder ==
    prog = "hue-control" /\ cmd \in {"set", "on", "off"} =>
        /\ \A i \in DOMAIN reqs :
              /\ reqs[i].method \in {"GET", "PUT"}
              /\ reqs[i].method = "GET" => i = 1
        /\ Puts # <<>> =>
              /\ reqs[1].method = "GET"
              /\ reqs[1].response = "success"
              /\ err.kind # "ProtocolError"
        /\ Len(reqs) >= 1 /\ reqs[1].response # "success" => Len(reqs) = 1
        /\ Len(Puts) > 1 =>
              /\ call.fn = "all"
              /\ Puts[1].target = "0"
              /\ Puts[1].response = "none"

\* on: the listing, the PUT to group "0" that failed, and one PUT to a group
C16_Witness ==
    /\ prog = "hue-control" /\ cmd = "on" /\ pc = "exit"
    /\ Len(reqs) = 3
    /\ reqs[1].method = "GET"
    /\ reqs[2].method = "PUT" /\ reqs[2].target = "0" /\ reqs[2].response = "none"
    /\ reqs[3].method = "PUT" /\ reqs[3].target = "1"

-----------------------------------------------------------------------------
(* C17: the range of bri.                                                  *)

\* C17: a bri field of a PUT body sent by set, on or off is in 1 .. 254.
C17_BriInDeviceRange ==
    prog = "hue-control" /\ cmd \in {"set", "on", "off"} =>
        \A i \in DOMAIN reqs :
            reqs[i].method = "PUT" /\ "bri" \in DOMAIN reqs[i].body =>
                reqs[i].body["bri"] \in 1 .. 254

=============================================================================
